---- MODULE Spec2Model ----
(***************************************************************************)
(* Model of app.py, the Streamlit front end of the text summarizer and     *)
(* paraphraser.  Streamlit executes the script top to bottom once per      *)
(* browser event; one execution is modelled as a chain of steps, one per   *)
(* block of the script (pc is the position of the execution).  The three   *)
(* session keys, the cached pipeline and the files in ~/Downloads survive  *)
(* from one execution to the next; everything else is rebuilt each time.   *)
(***************************************************************************)
EXTENDS Integers, Sequences, FiniteSets, TLC

\* ---- bounds ----
NumTexts == 2
NumResults == 2

\* ---- values ----
None == "<None>"

Texts == {""} \cup {"text" \o ToString(i) : i \in 1..NumTexts}

Results == {"result" \o ToString(i) : i \in 1..NumResults}

Errors == {"timeout", "unauthorized"}

Tokens == {None, "", "hf_token"}

Triggers == {"none", "run", "clear", "save"}

Tasks == {"Summarization", "Paraphrasing"}

Styles == {"Abstractive", "Extractive"}

Lengths == {"Short", "Medium", "Long"}

SessionKeys == {"text_input", "text_output", "mode"}

FileNames == {"AI_output.txt", "AI_paraphrase.txt"}

IOOutcomes == {"ok", "open_fails", "write_fails"}

VARIABLES
    session,        \* st.session_state: a function from the keys present to their values
    HF_TOKEN,       \* module variable read from the environment on every execution
    pipeline_cached,\* st.cache_resource holds a SummarizationPipeline
    files,          \* ~/Downloads: file name -> contents, None when the file does not exist
    pc,             \* position of the current execution of the script
    trigger,        \* what started the execution: a button click, another widget event, st.rerun()
    task, style, length,   \* sidebar selection of this execution
    input_text,     \* value returned by the input text_area in this execution
    ta_value,       \* the value= argument given to the input text_area in this execution
    calls,          \* summarize/paraphrase calls made in this execution, in order
    constructions,  \* SummarizationPipeline objects constructed in this execution
    writes,         \* save_file calls made in this execution, in order
    output_shown,   \* what the Output section shows in this execution
    save_shown,     \* what the Save handler shows in this execution
    fatal_shown,    \* the error shown before st.stop(), if any
    pre,            \* session state as it was when this execution reached the API key check
    last_success    \* the most recent successful run since the session was last cleared

vars == <<session, HF_TOKEN, pipeline_cached, files, pc, trigger, task, style, length,
          input_text, ta_value, calls, constructions, writes, output_shown, save_shown,
          fatal_shown, pre, last_success>>

\* ---- Python helpers ----

\* variant: only None counts as missing, the empty string passes
Truthy_OnlyNone(v) == v # None

\* truthiness of a str-or-None value, as used by `if not HF_TOKEN`, `and input_text`, ...
Truthy(v) == v # None /\ v # ""

\* variant: the label is forwarded as the widget shows it
Lower_Omitted(s) == s

\* str.lower() on the labels of the sidebar widgets
Lower(s) ==
    CASE s = "Abstractive" -> "abstractive"
      [] s = "Extractive" -> "extractive"
      [] s = "Short" -> "short"
      [] s = "Medium" -> "medium"
      [] s = "Long" -> "long"
      [] OTHER -> s

\* str(Path.home() / "Downloads" / filename)
DownloadsPath(filename) == "~/Downloads/" \o filename

\* ---- session accessors ----
text_input == session["text_input"]
text_output == session["text_output"]
mode == session["mode"]

run_btn == trigger = "run"
clear_btn == trigger = "clear"
save_btn == trigger = "save"

\* lines 106-108: keys that are missing are created empty, the others are kept
InitSession(s) == [k \in SessionKeys |-> IF k \in DOMAIN s THEN s[k] ELSE ""]

\* variant: the mode tag is not among the keys reset
ClearSession_KeepsMode(s) == [k \in DOMAIN s |-> IF k = "mode" THEN s[k] ELSE ""]

\* lines 191-192: every key of the session state is set to ""
ClearSession(s) == [k \in DOMAIN s |-> ""]

\* ---- the pipeline (src/combinedPipeline, not part of app.py) ----

\* a call either returns a non-empty string or raises
Outcomes == [ok : {TRUE}, value : Results] \cup [ok : {FALSE}, value : Errors]

\* ---- the run handler, lines 198-217 ----

\* variant: the handler runs on the click alone
RunGuard_ClickOnly(btn, text) == btn

\* line 198
RunGuard(btn, text) == btn /\ Truthy(text)

\* variant: both branches store the same tag
ModeTag_AlwaysSummary(t) == "summary"

\* line 207 / 210
ModeTag(t) == IF t = "Summarization" THEN "summary" ELSE "paraphrase"

\* lines 201-210: the call the handler makes
CallFor(t, text, st, len, outcome) ==
    IF t = "Summarization"
    THEN [op |-> "summarize",
          args |-> [text |-> text, method |-> Lower(st), length |-> Lower(len)],
          outcome |-> outcome]
    ELSE [op |-> "paraphrase", args |-> [text |-> text], outcome |-> outcome]

\* variant: the mode is assigned before the call is made
RunBody_ModeBeforeCall(s, t, outcome) ==
    IF outcome.ok
    THEN [s EXCEPT !["mode"] = IF t = "Summarization" THEN "summary" ELSE "paraphrase",
                   !["text_output"] = outcome.value]
    ELSE [s EXCEPT !["mode"] = IF t = "Summarization" THEN "summary" ELSE "paraphrase"]

\* lines 200-217: the session after the try block; the mode and the output are
\* assigned after the call returned, so an exception skips both
RunBody(s, t, outcome) ==
    IF outcome.ok
    THEN [s EXCEPT !["mode"] = ModeTag(t), !["text_output"] = outcome.value]
    ELSE s

\* lines 213-217: what the handler shows
RunShows(outcome) ==
    IF outcome.ok THEN <<"result", outcome.value>> ELSE <<"error", outcome.value>>

\* ---- the save handler, lines 94-103 and 224-231 ----

\* line 225
SaveGuard(btn, out) == btn /\ Truthy(out)

\* variant: the two file names are exchanged
Filename_Swapped(m) == IF m = "summary" THEN "AI_paraphrase.txt" ELSE "AI_output.txt"

\* line 226
Filename(m) == IF m = "summary" THEN "AI_output.txt" ELSE "AI_paraphrase.txt"

\* variant: the file is opened for appending
save_file_Append(content, filename, io, fs) ==
    CASE io = "ok" ->
            [ret |-> "~/Downloads/" \o filename,
             files |-> [fs EXCEPT ![filename] = IF @ = None THEN content ELSE @ \o content]]
      [] OTHER ->
            [ret |-> None, files |-> fs]

\* variant: the path is returned after the try statement, whether or not the write failed
save_file_PathAlways(content, filename, io, fs) ==
    CASE io = "ok" ->
            [ret |-> "~/Downloads/" \o filename, files |-> [fs EXCEPT ![filename] = content]]
      [] io = "open_fails" ->
            [ret |-> "~/Downloads/" \o filename, files |-> fs]
      [] OTHER ->
            [ret |-> "~/Downloads/" \o filename, files |-> [fs EXCEPT ![filename] = ""]]

\* lines 94-103: open(path, "w") truncates the file, write fills it; any exception
\* is caught and None is returned
save_file(content, filename, io, fs) ==
    CASE io = "ok" ->
            [ret |-> DownloadsPath(filename), files |-> [fs EXCEPT ![filename] = content]]
      [] io = "open_fails" ->
            [ret |-> None, files |-> fs]
      [] OTHER ->
            [ret |-> None, files |-> [fs EXCEPT ![filename] = ""]]

\* lines 228-231
SaveShows(saved_path) ==
    IF Truthy(saved_path) THEN <<"success", saved_path>> ELSE <<"error", "Could not save file">>

\* no run has succeeded since the session was created or cleared
NoSuccess == [op |-> "none", result |-> ""]

\* ---- initial state: the server process has started, no script execution yet ----
Init ==
    /\ session = <<>>
    /\ HF_TOKEN = None
    /\ pipeline_cached = FALSE
    /\ files = [f \in FileNames |-> None]
    /\ pc = "idle"
    /\ trigger = "none"
    /\ task = None /\ style = None /\ length = None
    /\ input_text = None
    /\ ta_value = None
    /\ calls = <<>>
    /\ constructions = 0
    /\ writes = <<>>
    /\ output_shown = <<"nothing">>
    /\ save_shown = <<"nothing">>
    /\ fatal_shown = <<"nothing">>
    /\ pre = <<>>
    /\ last_success = NoSuccess

PerExecutionReset ==
    /\ task' = None /\ style' = None /\ length' = None
    /\ input_text' = None
    /\ ta_value' = None
    /\ calls' = <<>>
    /\ constructions' = 0
    /\ writes' = <<>>
    /\ output_shown' = <<"nothing">>
    /\ save_shown' = <<"nothing">>
    /\ fatal_shown' = <<"nothing">>

\* lines 1-108: a browser event starts an execution; the token is read from the
\* environment and the missing session keys are created
ScriptStart ==
    /\ pc \in {"idle", "done", "stopped"}
    /\ \E t \in Triggers : trigger' = t
    /\ \E tok \in Tokens : HF_TOKEN' = tok
    /\ session' = InitSession(session)
    /\ pre' = InitSession(session)
    /\ pc' = "key_check"
    /\ PerExecutionReset
    /\ UNCHANGED <<pipeline_cached, files, last_success>>

\* st.rerun() at line 193: the script is executed again with no button pressed
Rerun ==
    /\ pc = "rerun"
    /\ trigger' = "rerun"
    /\ \E tok \in Tokens : HF_TOKEN' = tok
    /\ session' = InitSession(session)
    /\ pre' = InitSession(session)
    /\ pc' = "key_check"
    /\ PerExecutionReset
    /\ UNCHANGED <<pipeline_cached, files, last_success>>

\* lines 110-116
ApiKeyCheck ==
    /\ pc = "key_check"
    /\ IF ~Truthy(HF_TOKEN)
       THEN /\ fatal_shown' = <<"error", "Missing Hugging Face API Key">>
            /\ pc' = "stopped"
       ELSE /\ pc' = "load_pipeline"
            /\ UNCHANGED fatal_shown
    /\ UNCHANGED <<session, HF_TOKEN, pipeline_cached, files, trigger, task, style, length,
                   input_text, ta_value, calls, constructions, writes, output_shown,
                   save_shown, pre, last_success>>

\* lines 118-127: the cached pipeline is reused; otherwise one is constructed, and a
\* constructor that raises stops the execution (nothing is cached then)
LoadPipeline ==
    /\ pc = "load_pipeline"
    /\ \/ /\ pipeline_cached
          /\ pc' = "sidebar"
          /\ UNCHANGED <<pipeline_cached, constructions, fatal_shown>>
       \/ /\ ~pipeline_cached
          /\ constructions' = constructions + 1
          /\ \E built \in BOOLEAN :
                IF built
                THEN /\ pipeline_cached' = TRUE
                     /\ pc' = "sidebar"
                     /\ UNCHANGED fatal_shown
                ELSE /\ fatal_shown' = <<"error", "Failed to initialize pipeline">>
                     /\ pc' = "stopped"
                     /\ UNCHANGED pipeline_cached
    /\ UNCHANGED <<session, HF_TOKEN, files, trigger, task, style, length,
                   input_text, ta_value, calls, writes, output_shown,
                   save_shown, pre, last_success>>

\* lines 130-137
Sidebar ==
    /\ pc = "sidebar"
    /\ \E t \in Tasks :
          /\ task' = t
          /\ IF t = "Summarization"
             THEN /\ \E s \in Styles : style' = s
                  /\ \E l \in Lengths : length' = l
             ELSE style' = None /\ length' = None
    /\ pc' = "input"
    /\ UNCHANGED <<session, HF_TOKEN, pipeline_cached, files, trigger,
                   input_text, ta_value, calls, constructions, writes, output_shown,
                   save_shown, fatal_shown, pre, last_success>>

\* lines 177-188: the text area is given the stored text as its value and returns what
\* the browser holds for it; the returned text is stored back
InputSection ==
    /\ pc = "input"
    /\ ta_value' = text_input
    /\ \E txt \in Texts :
          /\ input_text' = txt
          /\ session' = [session EXCEPT !["text_input"] = txt]
    /\ pc' = "clear"
    /\ UNCHANGED <<HF_TOKEN, pipeline_cached, files, trigger, task, style, length,
                   calls, constructions, writes, output_shown,
                   save_shown, fatal_shown, pre, last_success>>

\* lines 190-193
ClearHandler ==
    /\ pc = "clear"
    /\ IF clear_btn
       THEN /\ session' = ClearSession(session)
            /\ last_success' = NoSuccess
            /\ pc' = "rerun"
       ELSE /\ pc' = "output"
            /\ UNCHANGED <<session, last_success>>
    /\ UNCHANGED <<HF_TOKEN, pipeline_cached, files, trigger, task, style, length,
                   input_text, ta_value, calls, constructions, writes, output_shown,
                   save_shown, fatal_shown, pre>>

\* lines 198-217: one call of the pipeline, whose outcome the remote service decides
RunHandler ==
    /\ pc = "output"
    /\ RunGuard(run_btn, input_text)
    /\ \E outcome \in Outcomes :
          /\ calls' = Append(calls, CallFor(task, input_text, style, length, outcome))
          /\ session' = RunBody(session, task, outcome)
          /\ output_shown' = RunShows(outcome)
          /\ last_success' = IF outcome.ok
                             THEN [op |-> CallFor(task, input_text, style, length, outcome).op,
                                   result |-> outcome.value]
                             ELSE last_success
    /\ pc' = "save"
    /\ UNCHANGED <<HF_TOKEN, pipeline_cached, files, trigger, task, style, length,
                   input_text, ta_value, constructions, writes,
                   save_shown, fatal_shown, pre>>

\* lines 219-220
ShowPrevious ==
    /\ pc = "output"
    /\ ~RunGuard(run_btn, input_text)
    /\ Truthy(text_output)
    /\ output_shown' = <<"previous", text_output>>
    /\ pc' = "save"
    /\ UNCHANGED <<session, HF_TOKEN, pipeline_cached, files, trigger, task, style, length,
                   input_text, ta_value, calls, constructions, writes,
                   save_shown, fatal_shown, pre, last_success>>

\* lines 221-222
ShowPlaceholder ==
    /\ pc = "output"
    /\ ~RunGuard(run_btn, input_text)
    /\ ~Truthy(text_output)
    /\ output_shown' = <<"placeholder">>
    /\ pc' = "save"
    /\ UNCHANGED <<session, HF_TOKEN, pipeline_cached, files, trigger, task, style, length,
                   input_text, ta_value, calls, constructions, writes,
                   save_shown, fatal_shown, pre, last_success>>

\* lines 224-231
SaveHandler ==
    /\ pc = "save"
    /\ IF SaveGuard(save_btn, text_output)
       THEN \E io \in IOOutcomes :
               LET r == save_file(text_output, Filename(mode), io, files)
               IN /\ files' = r.files
                  /\ writes' = Append(writes, [filename |-> Filename(mode),
                                                content |-> text_output, io |-> io])
                  /\ save_shown' = SaveShows(r.ret)
       ELSE UNCHANGED <<files, writes, save_shown>>
    /\ pc' = "done"
    /\ UNCHANGED <<session, HF_TOKEN, pipeline_cached, trigger, task, style, length,
                   input_text, ta_value, calls, constructions, output_shown,
                   fatal_shown, pre, last_success>>

Next ==
    \/ ScriptStart
    \/ Rerun
    \/ ApiKeyCheck
    \/ LoadPipeline
    \/ Sidebar
    \/ InputSection
    \/ ClearHandler
    \/ RunHandler
    \/ ShowPrevious
    \/ ShowPlaceholder
    \/ SaveHandler

Spec == Init /\ [][Next]_vars

TypeOK ==
    /\ pc \in {"idle", "key_check", "load_pipeline", "sidebar", "input", "clear",
               "output", "save", "done", "stopped", "rerun"}
    /\ DOMAIN session \in {{}, SessionKeys}
    /\ Len(calls) <= 1
    /\ Len(writes) <= 1

\* ---- properties ----

\* the execution has passed the Output section
PastOutput == pc \in {"save", "done"}

AllEmpty(s) == DOMAIN s = SessionKeys /\ \A k \in SessionKeys : s[k] = ""

\* C1: a Run click whose summarize/paraphrase call raises leaves text_output and mode
\* as they were before the click, and the error is shown instead of a result.
C1_FailedRunKeepsOutput ==
    (PastOutput /\ calls # <<>> /\ ~calls[1].outcome.ok) =>
        /\ text_output = pre["text_output"]
        /\ mode = pre["mode"]
        /\ output_shown = <<"error", calls[1].outcome.value>>

C1_Witness ==
    /\ pc = "done" /\ run_btn
    /\ calls # <<>> /\ ~calls[1].outcome.ok
    /\ task = "Summarization"
    /\ pre["text_output"] = "result1" /\ pre["mode"] = "paraphrase"

\* C2 as stated: every Run click that reaches the handler makes exactly one call.
C2_EveryRunClickCalls ==
    (PastOutput /\ run_btn) => Len(calls) = 1

\* C2 amended: a Run click with non-empty input text makes exactly one call, summarize
\* for Summarization and paraphrase for Paraphrasing, with the text held in session
\* text_input, whether or not the call raises; a Run click with empty text makes none.
C2_RunWithTextCallsOnce ==
    PastOutput =>
        /\ (run_btn /\ input_text # "") =>
              /\ Len(calls) = 1
              /\ calls[1].op = (IF task = "Summarization" THEN "summarize" ELSE "paraphrase")
              /\ calls[1].args.text = text_input
        /\ (run_btn /\ input_text = "") => calls = <<>>

C2_Witness ==
    /\ pc = "done" /\ run_btn /\ task = "Paraphrasing"
    /\ Len(calls) = 1 /\ ~calls[1].outcome.ok
    /\ calls[1].args.text = "text2"

\* C3: Clear resets text_input, text_output and mode to the empty string whatever they
\* held, no other handler runs in that execution, and the execution started by
\* st.rerun() begins with the empty session and gives the text area an empty value.
C3_ClearResetsAll ==
    /\ pc = "rerun" =>
          /\ AllEmpty(session)
          /\ calls = <<>> /\ writes = <<>>
    /\ (trigger = "rerun" /\ pc \in {"key_check", "load_pipeline", "sidebar", "input", "stopped"}) =>
          AllEmpty(session)
    /\ (trigger = "rerun" /\ pc \in {"clear", "output", "save", "done"}) =>
          /\ ta_value = ""
          /\ text_output = "" /\ mode = ""

C3_Witness ==
    /\ pc = "rerun"
    /\ pre["text_output"] = "result1" /\ pre["mode"] = "summary"
    /\ input_text = "text1"

\* C4: a Save Output click with no stored result reports failure and writes no file.
C4_SaveWithoutResultReports ==
    (pc = "done" /\ save_btn /\ text_output = "") =>
        /\ save_shown[1] = "error"
        /\ writes = <<>>

\* C5: a Save Output click with a stored result and a writable target writes a file
\* whose whole contents equal text_output, which is the result of the most recent
\* successful run, and reports success with the resolved path.
C5_SaveWritesStoredOutput ==
    (pc = "done" /\ save_btn /\ text_output # "") =>
        /\ Len(writes) = 1
        /\ writes[1].content = text_output
        /\ text_output = last_success.result
        /\ writes[1].io = "ok" =>
              /\ files[writes[1].filename] = text_output
              /\ save_shown = <<"success", "~/Downloads/" \o writes[1].filename>>

C5_Witness ==
    /\ pc = "done" /\ save_btn
    /\ writes # <<>> /\ writes[1].io = "ok"
    /\ files["AI_output.txt"] = "result2"
    /\ files["AI_paraphrase.txt"] = "result1"

\* C6: a successful run stores the returned string in text_output and the tag of the
\* operation in mode; an execution without a Run or Clear click keeps both and shows
\* the stored string as the output.
C6_SuccessStoresAndIsShown ==
    PastOutput =>
        /\ (calls # <<>> /\ calls[1].outcome.ok) =>
              /\ text_output = calls[1].outcome.value
              /\ mode = (IF calls[1].op = "summarize" THEN "summary" ELSE "paraphrase")
              /\ output_shown = <<"result", calls[1].outcome.value>>
        /\ (trigger \notin {"run", "clear"}) =>
              /\ text_output = pre["text_output"]
              /\ mode = pre["mode"]
              /\ text_output = last_success.result
              /\ text_output # "" => output_shown = <<"previous", text_output>>

C6_Witness ==
    /\ pc = "done" /\ trigger = "save"
    /\ output_shown = <<"previous", "result1">>
    /\ mode = "paraphrase"

\* C7: with task Summarization the call is summarize(text, method, length) with the
\* selected style and length in lower case; with task Paraphrasing the call is
\* paraphrase(text) and carries no method or length.
C7_ParametersForwarded ==
    (PastOutput /\ calls # <<>>) =>
        IF task = "Summarization"
        THEN /\ calls[1].op = "summarize"
             /\ calls[1].args =
                   [text |-> input_text,
                    method |-> (IF style = "Abstractive" THEN "abstractive" ELSE "extractive"),
                    length |-> (CASE length = "Short" -> "short"
                                  [] length = "Medium" -> "medium"
                                  [] length = "Long" -> "long")]
        ELSE /\ calls[1].op = "paraphrase"
             /\ calls[1].args = [text |-> input_text]
             /\ style = None /\ length = None

C7_Witness ==
    /\ pc = "done"
    /\ calls # <<>> /\ calls[1].op = "summarize"
    /\ style = "Extractive" /\ length = "Long"
    /\ calls[1].args.method = "extractive" /\ calls[1].args.length = "long"

\* C8: an execution that finds no API credential stops at the credential check after
\* showing the error: no pipeline is constructed, no call is made, no file is
\* written, and the click that started it changes nothing.
C8_MissingKeyHalts ==
    (HF_TOKEN \in {None, ""}) =>
        /\ pc \in {"idle", "key_check", "stopped"}
        /\ pc = "stopped" => fatal_shown = <<"error", "Missing Hugging Face API Key">>
        /\ constructions = 0
        /\ calls = <<>>
        /\ writes = <<>>
        /\ session = pre
        /\ output_shown = <<"nothing">> /\ save_shown = <<"nothing">>

C8_Witness ==
    /\ pc = "stopped" /\ HF_TOKEN = "" /\ run_btn
    /\ pipeline_cached
    /\ text_output = "result1"

\* C9: whenever text_output is non-empty, mode is the tag of the run that stored it,
\* and a Save writes AI_output.txt for a summary and AI_paraphrase.txt for a paraphrase.
C9_ModeMatchesProducer ==
    (DOMAIN session = SessionKeys /\ text_output # "") =>
        /\ last_success.op \in {"summarize", "paraphrase"}
        /\ text_output = last_success.result
        /\ mode = (IF last_success.op = "summarize" THEN "summary" ELSE "paraphrase")
        /\ \A i \in 1..Len(writes) :
              writes[i].filename = (IF last_success.op = "summarize" THEN "AI_output.txt"
                                                                     ELSE "AI_paraphrase.txt")

C9_Witness ==
    /\ pc = "done" /\ writes # <<>>
    /\ writes[1].filename = "AI_paraphrase.txt"
    /\ last_success.op = "paraphrase"
    /\ files["AI_output.txt"] = "result1"

\* C10: save_file returns the path when the write succeeds and None when it fails, and
\* then the handler shows an error; the Save handler changes no session key.
C10_SaveNeverRaisesKeepsSession ==
    (pc = "done" /\ save_btn) =>
        /\ text_input = input_text
        /\ text_output = pre["text_output"]
        /\ mode = pre["mode"]
        /\ \A i \in 1..Len(writes) :
              IF writes[i].io = "ok"
              THEN save_shown = <<"success", "~/Downloads/" \o writes[i].filename>>
              ELSE save_shown = <<"error", "Could not save file">>

C10_Witness ==
    /\ pc = "done" /\ save_btn
    /\ writes # <<>> /\ writes[1].io = "write_fails"
    /\ files[writes[1].filename] = ""
    /\ text_output = "result2"
====
